---- MODULE Spec2Model ----
(***************************************************************************)
(* Model of src/main.py: the bisection root finder, the critical-thickness *)
(* driver, the quantum-well profile builder and the bowing-formula energy  *)
(* calculator.                                                             *)
(*                                                                         *)
(* Thicknesses live on a finite grid 0..GridMax, the scaled-down image of  *)
(* the finitely many floats of a bracket: the midpoint of two grid points  *)
(* is rounded to a grid point (ties to even) as float division rounds it.  *)
(* Function values and tolerances are integers in units of 1/ValueScale,   *)
(* a thickness distance of one grid step being ValueScale such units.      *)
(* Energies and band values are exact scaled integers; the rounding of     *)
(* IEEE arithmetic on them is outside the model.                           *)
(***************************************************************************)
EXTENDS Integers, Sequences, FiniteSets, TLC

\* ------------------------------------------------------------------ bounds
GridMax == 4           \* thickness grid 0..GridMax
RecursionLimit == 6    \* frames the interpreter allows before RecursionError
ValueScale == 2        \* function values and tolerance: units of 1/ValueScale
MaxGridLen == 5        \* longest composition grid given to calculate_critical_thickness
MaxWidth == 8          \* small well widths -4..MaxWidth
MaxCoeff == 3          \* bowing coefficients -MaxCoeff..MaxCoeff
MaxSlope == 2          \* band input series families 1..MaxSlope

FunctionValues == {-2, -1, 0, 1, 2}
Tolerances == {0, 1}

\* ------------------------------------------------------------------ program constants
NPoints == 101         \* range(101)
GridStep == 100        \* x = i/100.0
NPositions == 1001     \* range(0,1001)
BracketMin == 10
BracketMax == 7000

\* PARAMETERS_BANDS["VBO"], in units of 0.01 eV
VBO == <<0, -59>>

\* QUANTUM_WELL_PARAMS["Well_widths"]
ConfiguredWidths == {100, 200, 300}

\* ------------------------------------------------------------------ state
VARIABLES
    pc,            \* position of the running call
    \* bisection
    function,      \* thickness -> function(thickness, i, x_list), args fixed
    tolerance,
    call_min,      \* x_min of the top-level call
    call_max,      \* x_max of the top-level call
    x_min,
    x_max,
    x_intercept,
    depth,         \* number of nested bisection frames below the top-level one
    result,        \* value returned by the top-level call
    \* calculate_critical_thickness
    grid_len,      \* len(x_list)
    i,             \* loop index
    temp,
    calls,         \* <<x_min, x_max, index>> of every bisection call made so far
    \* create_quantum_well
    bands,         \* the six input series
    well_width,
    composition,   \* in units of 0.001
    valence_hh,
    valence_lh,
    conduction,
    conduction_no_tension,
    valence_no_tension,
    \* get_parameters and calculate_energy
    parameters,    \* the configuration tuple (a, b_ac, c)
    values,        \* the tuple (a, b, c) get_parameters returns
    x_list,        \* in units of 1/GridStep
    energy_list    \* in units of 1/GridStep^2

bisVars == <<function, tolerance, call_min, call_max, x_min, x_max,
             x_intercept, depth, result>>
ctVars == <<grid_len, i, temp, calls>>
wellVars == <<bands, well_width, composition, valence_hh, valence_lh,
              conduction, conduction_no_tension, valence_no_tension>>
energyVars == <<parameters, values, x_list, energy_list>>
vars == <<pc, bisVars, ctVars, wellVars, energyVars>>

\* ------------------------------------------------------------------ helpers
None == -1

Abs(v) == IF v < 0 THEN -v ELSE v

Grid == 0 .. GridMax

\* (lo + hi) / 2.0 on the grid: exact when representable, else ties-to-even
Midpoint(lo, hi) ==
    LET s == lo + hi
        q == s \div 2
    IN  IF s % 2 = 0 THEN q
        ELSE IF q % 2 = 0 THEN q ELSE q + 1

SignChangeStrict(a, b) == function[a] * function[b] < 0

SignChangeFlipped(a, b) == function[a] * function[b] >= 0

\* function(a)*function(b) <= 0
SignChange(a, b) == function[a] * function[b] <= 0

\* the condition of the refinement step
BothHalvesBracket(lo, mid, hi) == SignChange(lo, mid) /\ SignChange(hi, mid)

WithinToleranceLoose(x) == Abs(function[x]) <= tolerance + 1

\* the negated guard of the tolerance loop
WithinTolerance(x) == Abs(function[x]) <= tolerance

\* ------------------------------------------------------------------ idle parts
BisectionIdle ==
    /\ function = <<>>
    /\ tolerance = 0
    /\ call_min = 0
    /\ call_max = 0
    /\ x_min = 0
    /\ x_max = 0
    /\ x_intercept = 0
    /\ depth = 0
    /\ result = None

ThicknessIdle ==
    /\ grid_len = 0
    /\ i = 0
    /\ temp = <<>>
    /\ calls = <<>>

WellIdle ==
    /\ bands = <<>>
    /\ well_width = 0
    /\ composition = 0
    /\ valence_hh = <<>>
    /\ valence_lh = <<>>
    /\ conduction = <<>>
    /\ conduction_no_tension = <<>>
    /\ valence_no_tension = <<>>

EnergyIdle ==
    /\ parameters = <<>>
    /\ values = <<>>
    /\ x_list = <<>>
    /\ energy_list = <<>>

\* ------------------------------------------------------------------ bisection
BisectionInit ==
    /\ ThicknessIdle
    /\ WellIdle
    /\ EnergyIdle
    /\ pc = "entry"
    /\ function \in [Grid -> FunctionValues]
    /\ tolerance \in Tolerances
    /\ call_min \in Grid
    /\ call_max \in Grid
    /\ call_min <= call_max
    /\ x_min = call_min
    /\ x_max = call_max
    /\ x_intercept = Midpoint(call_min, call_max)
    /\ depth = 0
    /\ result = None

RefineLeft ==
    /\ pc = "entry"
    /\ BothHalvesBracket(x_min, x_intercept, x_max)
    /\ depth < RecursionLimit
    /\ depth' = depth + 1
    /\ x_max' = x_intercept
    /\ x_intercept' = Midpoint(x_min, x_intercept)
    /\ UNCHANGED <<pc, function, tolerance, call_min, call_max, x_min, result>>
    /\ UNCHANGED <<ctVars, wellVars, energyVars>>

\* return bisection(function, x_intercept, x_max, args, tolerance)
Refine ==
    /\ pc = "entry"
    /\ BothHalvesBracket(x_min, x_intercept, x_max)
    /\ depth < RecursionLimit
    /\ depth' = depth + 1
    /\ x_min' = x_intercept
    /\ x_intercept' = Midpoint(x_intercept, x_max)
    /\ UNCHANGED <<pc, function, tolerance, call_min, call_max, x_max, result>>
    /\ UNCHANGED <<ctVars, wellVars, energyVars>>

\* the same call with the interpreter's frame limit reached
RecursionOverflow ==
    /\ pc = "entry"
    /\ BothHalvesBracket(x_min, x_intercept, x_max)
    /\ depth >= RecursionLimit
    /\ pc' = "RecursionError"
    /\ UNCHANGED bisVars
    /\ UNCHANGED <<ctVars, wellVars, energyVars>>

EnterLoop ==
    /\ pc = "entry"
    /\ ~BothHalvesBracket(x_min, x_intercept, x_max)
    /\ pc' = "loop"
    /\ UNCHANGED bisVars
    /\ UNCHANGED <<ctVars, wellVars, energyVars>>

LoopExit ==
    /\ pc = "loop"
    /\ WithinTolerance(x_intercept)
    /\ pc' = "returned"
    /\ result' = x_intercept
    /\ UNCHANGED <<function, tolerance, call_min, call_max, x_min, x_max,
                   x_intercept, depth>>
    /\ UNCHANGED <<ctVars, wellVars, energyVars>>

LoopLeft ==
    /\ pc = "loop"
    /\ ~WithinTolerance(x_intercept)
    /\ SignChange(x_min, x_intercept)
    /\ x_max' = x_intercept
    /\ x_intercept' = Midpoint(x_min, x_intercept)
    /\ UNCHANGED <<pc, function, tolerance, call_min, call_max, x_min,
                   depth, result>>
    /\ UNCHANGED <<ctVars, wellVars, energyVars>>

LoopRightRetest ==
    /\ pc = "loop"
    /\ ~WithinTolerance(x_intercept)
    /\ ~SignChange(x_min, x_intercept)
    /\ SignChange(x_max, x_intercept)
    /\ pc' = "entry"
    /\ x_min' = x_intercept
    /\ x_intercept' = Midpoint(x_intercept, x_max)
    /\ UNCHANGED <<function, tolerance, call_min, call_max, x_max,
                   depth, result>>
    /\ UNCHANGED <<ctVars, wellVars, energyVars>>

LoopRight ==
    /\ pc = "loop"
    /\ ~WithinTolerance(x_intercept)
    /\ ~SignChange(x_min, x_intercept)
    /\ SignChange(x_max, x_intercept)
    /\ x_min' = x_intercept
    /\ x_intercept' = Midpoint(x_intercept, x_max)
    /\ UNCHANGED <<pc, function, tolerance, call_min, call_max, x_max,
                   depth, result>>
    /\ UNCHANGED <<ctVars, wellVars, energyVars>>

LoopNone ==
    /\ pc = "loop"
    /\ ~WithinTolerance(x_intercept)
    /\ ~SignChange(x_min, x_intercept)
    /\ ~SignChange(x_max, x_intercept)
    /\ pc' = "returned"
    /\ result' = None
    /\ UNCHANGED <<function, tolerance, call_min, call_max, x_min, x_max,
                   x_intercept, depth>>
    /\ UNCHANGED <<ctVars, wellVars, energyVars>>

BisectionNext ==
    \/ Refine
    \/ RecursionOverflow
    \/ EnterLoop
    \/ LoopExit
    \/ LoopLeft
    \/ LoopRight
    \/ LoopNone

SpecBisection == BisectionInit /\ [][BisectionNext]_vars

\* ------------------------------------------------------------------ Python helpers
\* int(n / d) for d > 0: truncation toward zero
TruncDiv(n, d) == IF n >= 0 THEN n \div d ELSE -((-n) \div d)

IndexInRangeNoWrap(seq, k) == 0 <= k /\ k < Len(seq)

\* seq[k] does not raise IndexError: negative indices count from the end
IndexInRange(seq, k) == -Len(seq) <= k /\ k < Len(seq)

\* seq[k]
Item(seq, k) == IF k >= 0 THEN seq[k + 1] ELSE seq[Len(seq) + k + 1]

\* ------------------------------------------------------------------ calculate_critical_thickness
\* what one call of bisection may hand back
BisectionResults == {None, BracketMin, BracketMax}

ThicknessInit ==
    /\ pc = "for"
    /\ grid_len \in 0 .. MaxGridLen
    /\ i = 0
    /\ temp = <<>>
    /\ calls = <<>>
    /\ BisectionIdle
    /\ WellIdle
    /\ EnergyIdle

no_iterations == grid_len - 1

\* one pass of the for loop: h_c = bisection(...); temp.append(h_c)
ThicknessIterate ==
    /\ pc = "for"
    /\ i < no_iterations
    /\ \E h_c \in BisectionResults :
           temp' = Append(temp, h_c)
    /\ calls' = Append(calls, <<BracketMin, BracketMax, i>>)
    /\ i' = i + 1
    /\ UNCHANGED <<pc, grid_len>>
    /\ UNCHANGED <<bisVars, wellVars, energyVars>>

\* temp.append(3*temp[no_iterations-1])
ThicknessExtrapolate ==
    /\ pc = "for"
    /\ i >= no_iterations
    /\ IndexInRange(temp, no_iterations - 1)
    /\ Item(temp, no_iterations - 1) # None
    /\ temp' = Append(temp, 3 * Item(temp, no_iterations - 1))
    /\ pc' = "done"
    /\ UNCHANGED <<grid_len, i, calls>>
    /\ UNCHANGED <<bisVars, wellVars, energyVars>>

\* 3*None
ThicknessTypeError ==
    /\ pc = "for"
    /\ i >= no_iterations
    /\ IndexInRange(temp, no_iterations - 1)
    /\ Item(temp, no_iterations - 1) = None
    /\ pc' = "TypeError"
    /\ UNCHANGED ctVars
    /\ UNCHANGED <<bisVars, wellVars, energyVars>>

\* temp[no_iterations-1] on an empty temp
ThicknessIndexError ==
    /\ pc = "for"
    /\ i >= no_iterations
    /\ ~IndexInRange(temp, no_iterations - 1)
    /\ pc' = "IndexError"
    /\ UNCHANGED ctVars
    /\ UNCHANGED <<bisVars, wellVars, energyVars>>

ThicknessNext ==
    \/ ThicknessIterate
    \/ ThicknessExtrapolate
    \/ ThicknessTypeError
    \/ ThicknessIndexError

SpecThickness == ThicknessInit /\ [][ThicknessNext]_vars

\* ------------------------------------------------------------------ create_quantum_well
Position == 0 .. (NPositions - 1)

\* six band series of NPoints entries, in units of 0.01 eV
MakeBands(s) ==
    [ energy_list       |-> [k \in 1 .. NPoints |-> 24 + s * (k - 1)],
      valence_band      |-> [k \in 1 .. NPoints |-> -s * (k - 1)],
      conduction_band   |-> [k \in 1 .. NPoints |-> 300 + s * (k - 1)],
      heavy_holes       |-> [k \in 1 .. NPoints |-> 1000 - 3 * s * (k - 1)],
      light_holes       |-> [k \in 1 .. NPoints |-> 2000 - 5 * s * (k - 1)],
      conduction_tension |-> [k \in 1 .. NPoints |-> 3000 + 7 * s * (k - 1)] ]

WellWidths ==
    (-4 .. MaxWidth) \cup ConfiguredWidths \cup {999, 1000, 1001, 1002, 1003}

\* compositions in units of 0.001, inside and outside [0, 1]
Compositions ==
    {-1500, -1020, -1015, -1010, -1005, -500, -10, -5, 0, 250, 295, 500, 750,
     1000, 1005, 1010, 1500}

WellInit ==
    /\ pc = "well"
    /\ bands \in {MakeBands(s) : s \in 1 .. MaxSlope}
    /\ well_width \in WellWidths
    /\ composition \in Compositions
    /\ valence_hh = <<>>
    /\ valence_lh = <<>>
    /\ conduction = <<>>
    /\ conduction_no_tension = <<>>
    /\ valence_no_tension = <<>>
    /\ BisectionIdle
    /\ ThicknessIdle
    /\ EnergyIdle

\* int(composition * 100)
CompositionIndex == TruncDiv(composition * 100, 1000)

\* int(500 - well_width/2.0)
WindowLow == TruncDiv(1000 - well_width, 2)

WindowHighCentre == TruncDiv(1000 + well_width, 2)

\* int(501 + well_width/2.0)
WindowHigh == TruncDiv(1002 + well_width, 2)

\* x in range(int(500-well_width/2.0), int(501+well_width/2.0))
InWindow(x) == WindowLow <= x /\ x < WindowHigh

\* the loop body indexes the five band series at the composition index
BodyRuns == {x \in Position : InWindow(x)} # {}

AllIndexable ==
    /\ IndexInRange(bands.heavy_holes, CompositionIndex)
    /\ IndexInRange(bands.light_holes, CompositionIndex)
    /\ IndexInRange(bands.conduction_tension, CompositionIndex)
    /\ IndexInRange(bands.conduction_band, CompositionIndex)
    /\ IndexInRange(bands.valence_band, CompositionIndex)

\* one profile: exterior value outside the window, series value inside
Profile(exterior, series) ==
    [x \in Position |->
        IF InWindow(x)
           THEN Item(series, CompositionIndex) - VBO[2]
           ELSE exterior]

\* lines 184-197 run to the end
WellBuild ==
    /\ pc = "well"
    /\ BodyRuns => AllIndexable
    /\ valence_hh' = Profile(0, bands.heavy_holes)
    /\ valence_lh' = Profile(0, bands.light_holes)
    /\ conduction' = Profile(0 + Item(bands.energy_list, 0), bands.conduction_tension)
    /\ conduction_no_tension' =
           Profile(0 + Item(bands.energy_list, 0), bands.conduction_band)
    /\ valence_no_tension' = Profile(0, bands.valence_band)
    /\ pc' = "plotted"
    /\ UNCHANGED <<bands, well_width, composition>>
    /\ UNCHANGED <<bisVars, ctVars, energyVars>>

\* the first window position indexes a series outside its range
WellIndexError ==
    /\ pc = "well"
    /\ BodyRuns
    /\ ~AllIndexable
    /\ pc' = "IndexError"
    /\ UNCHANGED wellVars
    /\ UNCHANGED <<bisVars, ctVars, energyVars>>

WellNext ==
    \/ WellBuild
    \/ WellIndexError

SpecWell == WellInit /\ [][WellNext]_vars

\* ------------------------------------------------------------------ get_parameters, calculate_energy
Coefficients == -MaxCoeff .. MaxCoeff

EnergyInit ==
    /\ pc = "get_parameters"
    /\ parameters \in Coefficients \X Coefficients \X Coefficients
    /\ values = <<>>
    /\ x_list = <<>>
    /\ energy_list = <<>>
    /\ BisectionIdle
    /\ ThicknessIdle
    /\ WellIdle

get_parameters_swapped_sign(p) == <<p[1], p[2] - p[1] + p[3], p[3]>>

\* a,b_ac,c = parameters; b = b_ac - a - c; return (a,b,c)
get_parameters(p) == <<p[1], p[2] - p[1] - p[3], p[3]>>

\* value_a + value_b*x_val + value_c*x_val*x_val at x_val = k/GridStep,
\* in units of 1/GridStep^2
energy_value(value_a, value_b, value_c, k) ==
    value_a * GridStep * GridStep + value_b * k * GridStep + value_c * k * k

GetParameters ==
    /\ pc = "get_parameters"
    /\ values' = get_parameters(parameters)
    /\ pc' = "calculate_energy"
    /\ UNCHANGED <<parameters, x_list, energy_list>>
    /\ UNCHANGED <<bisVars, ctVars, wellVars>>

CalculateEnergy ==
    /\ pc = "calculate_energy"
    /\ x_list' = [k \in 1 .. NPoints |-> k - 1]
    /\ energy_list' =
           [k \in 1 .. NPoints |->
               energy_value(values[1], values[2], values[3], k - 1)]
    /\ pc' = "energy"
    /\ UNCHANGED <<parameters, values>>
    /\ UNCHANGED <<bisVars, ctVars, wellVars>>

EnergyNext ==
    \/ GetParameters
    \/ CalculateEnergy

SpecEnergy == EnergyInit /\ [][EnergyNext]_vars

\* ------------------------------------------------------------------ claims on bisection
Bracket == call_min .. call_max

TopMid == Midpoint(call_min, call_max)

Returned == pc = "returned"

Monotonic ==
    \/ \A a, b \in Bracket : a <= b => function[a] <= function[b]
    \/ \A a, b \in Bracket : a <= b => function[a] >= function[b]

StrictlyMonotonic ==
    \/ \A a, b \in Bracket : a < b => function[a] < function[b]
    \/ \A a, b \in Bracket : a < b => function[a] > function[b]

HasRoot == \E r \in Bracket : function[r] = 0

NoSignChange ==
    \/ \A x \in Bracket : function[x] > 0
    \/ \A x \in Bracket : function[x] < 0

\* C1: every value bisection returns other than None is a thickness x with
\* |f(x)| <= tolerance, whichever path produced it.
C1_ReturnedWithinTolerance ==
    (Returned /\ result # None) => Abs(function[result]) <= tolerance

\* a value returned after a recursive refinement and an iteration of the loop
C1_Witness ==
    /\ Returned
    /\ result # None
    /\ depth > 0
    /\ x_max # call_max
    /\ function[TopMid] # 0

\* C2 as stated: for monotonic f with a root r in the bracket the returned
\* value is within tolerance of r (checked here for the strictly monotonic
\* functions only, whose root is unique).
C2_WithinToleranceOfRoot ==
    (Returned /\ StrictlyMonotonic) =>
        \A r \in Bracket :
            function[r] = 0 =>
                (result # None /\ Abs(result - r) * ValueScale <= tolerance)

\* C2 amended: for monotonic f with a root in the bracket, bisection never
\* returns None, and a returned value x lies in the bracket with
\* |f(x)| <= tolerance (x need not be within tolerance of the root).
C2_MonotonicReturnsSmallValue ==
    (Returned /\ Monotonic /\ HasRoot) =>
        /\ result # None
        /\ result \in Bracket
        /\ Abs(function[result]) <= tolerance

\* a monotonic function with a root, whose returned point is farther than
\* tolerance from every root
C2_Witness ==
    /\ Returned
    /\ StrictlyMonotonic
    /\ HasRoot
    /\ result # None
    /\ \A r \in Bracket :
           function[r] = 0 => Abs(result - r) * ValueScale > tolerance

\* C3 as stated: with no sign change in the bracket bisection returns None
\* for every tolerance.
C3_NoSignChangeReturnsNone ==
    (Returned /\ NoSignChange) => result = None

\* C3 amended: with no sign change in the bracket bisection never refines;
\* it returns None when |f| at the first midpoint exceeds tolerance, and
\* returns that midpoint otherwise.
C3_NoSignChangeNoneUnlessSmall ==
    NoSignChange =>
        /\ depth = 0
        /\ pc # "RecursionError"
        /\ x_min = call_min /\ x_max = call_max
        /\ Returned =>
            IF Abs(function[TopMid]) > tolerance
               THEN result = None
               ELSE result = TopMid

\* both outcomes exist: this is the one where a midpoint is returned
C3_Witness ==
    /\ Returned
    /\ NoSignChange
    /\ result = TopMid
    /\ call_min < call_max

\* C4: every call ends by returning a value or None; the recursion of the
\* refinement step has bounded depth.
C4_EndsByReturning == pc # "RecursionError"

\* C8: when both halves bracket at entry the search continues in the right
\* half only, and any returned value lies in [mid, x_max].
C8_RightHalfOnly ==
    BothHalvesBracket(call_min, TopMid, call_max) =>
        /\ (pc = "entry" /\ depth = 0) \/ depth >= 1
        /\ depth >= 1 =>
            /\ x_min >= TopMid
            /\ x_intercept >= TopMid
            /\ x_max <= call_max
        /\ (Returned /\ result # None) =>
            (TopMid <= result /\ result <= call_max)

\* a value returned from the right half although the left half holds a root
C8_Witness ==
    /\ BothHalvesBracket(call_min, TopMid, call_max)
    /\ Returned
    /\ result # None
    /\ call_min < TopMid
    /\ \E x \in call_min .. (TopMid - 1) : function[x] = 0

\* C9 as stated: the bracket is narrowed by the both-halves test at most once.
C9_RefinedAtMostOnce == depth <= 1

\* C9 amended: every call re-applies the both-halves test at entry, so the
\* narrowing may repeat, but every such narrowing happens before the
\* tolerance loop starts; once the loop runs only the loop changes the bracket.
C9_RefineOnlyBeforeLoop ==
    [][(depth' # depth \/ pc' = "entry") => pc = "entry"]_vars

\* the loop running after two narrowings
C9_Witness ==
    /\ Returned
    /\ depth >= 2
    /\ x_min # x_max

\* ------------------------------------------------------------------ claims on calculate_critical_thickness
\* C10: for a grid of n >= 2 points bisection is called on [10, 7000] once
\* per index 0..n-2 in increasing order, and a series of n entries whose last
\* entry is 3 times the entry at n-2 is produced, whatever bisection returns.
C10_SeriesWhateverBisectionReturns ==
    grid_len >= 2 =>
        /\ pc \notin {"TypeError", "IndexError"}
        /\ pc = "done" =>
            /\ Len(temp) = grid_len
            /\ temp[grid_len] = 3 * temp[grid_len - 1]
            /\ calls = [k \in 1 .. (grid_len - 1) |->
                            <<BracketMin, BracketMax, k - 1>>]

\* ------------------------------------------------------------------ claims on create_quantum_well
Built == pc = "plotted"

\* the five profiles at position x, given whether x is interior
ProfilesAre(x, interior) ==
    LET vbo == VBO[2]
        c == CompositionIndex
        outer == bands.energy_list[1]
    IN  IF interior
           THEN /\ -NPoints <= c /\ c < NPoints
                /\ valence_hh[x] = Item(bands.heavy_holes, c) - vbo
                /\ valence_lh[x] = Item(bands.light_holes, c) - vbo
                /\ conduction[x] = Item(bands.conduction_tension, c) - vbo
                /\ conduction_no_tension[x] = Item(bands.conduction_band, c) - vbo
                /\ valence_no_tension[x] = Item(bands.valence_band, c) - vbo
           ELSE /\ valence_hh[x] = 0
                /\ valence_lh[x] = 0
                /\ conduction[x] = outer
                /\ conduction_no_tension[x] = outer
                /\ valence_no_tension[x] = 0

\* 500 - w/2 <= x < 501 + w/2
ClaimedWindow(x) == 1000 - well_width <= 2 * x /\ 2 * x < 1002 + well_width

\* the window of an odd width: both ends half a position lower
OddWindow(x) == 999 - well_width <= 2 * x /\ 2 * x < 1001 + well_width

\* C5 as stated: for every width w the interior positions are exactly those
\* with 500 - w/2 <= x < 501 + w/2.
C5_WindowAsClaimed ==
    Built => \A x \in Position : ProfilesAre(x, ClaimedWindow(x))

\* C5 amended: both window ends are truncated to integers, so the interior
\* positions are those with 500 - w/2 <= x < 501 + w/2 for an even width w
\* and those with 499.5 - w/2 <= x < 500.5 + w/2 for an odd width; every
\* other position keeps its exterior value; for w = 200 the interior is
\* exactly 400..600.
C5_WindowTruncated ==
    Built =>
        /\ \A x \in Position :
               ProfilesAre(x, IF well_width % 2 = 0
                                 THEN ClaimedWindow(x)
                                 ELSE OddWindow(x))
        /\ well_width = 200 =>
               \A x \in Position : ProfilesAre(x, x \in 400 .. 600)

\* an odd width: position 497 is interior and 503 is not
C5_Witness ==
    /\ Built
    /\ well_width = 5
    /\ composition = 250
    /\ valence_hh[497] = bands.heavy_holes[26] - VBO[2]
    /\ valence_hh[497] # 0
    /\ valence_hh[503] = 0

\* C6 as stated (for the configured widths): a composition outside [0, 1]
\* makes the call fail with an index error, below 0 as well as above 1.
C6_OutsideUnitIntervalRaises ==
    (pc # "well" /\ well_width \in ConfiguredWidths
        /\ (composition < 0 \/ composition > 1000))
    => pc = "IndexError"

\* C6 amended: with a width >= 0 the call fails with an index error exactly
\* when int(composition*100) is above 100 or below -101 (composition >= 1.01
\* or <= -1.02); a composition in (-1.02, -0.01] does not fail but reads the
\* series from its end, one in (1, 1.01) reads index 100, and with a negative
\* width no position is interior and nothing fails.
C6_IndexErrorBeyondWrap ==
    pc # "well" =>
        /\ (pc = "IndexError") <=>
               /\ well_width >= 0
               /\ (composition >= 1010 \/ composition <= -1020)
        /\ (Built /\ well_width >= 0 /\ composition <= -10) =>
               valence_hh[500] =
                   bands.heavy_holes[NPoints + 1 - ((-composition) \div 10)]
                       - VBO[2]
        /\ (Built /\ well_width >= 0 /\ composition > 1000) =>
               valence_hh[500] = bands.heavy_holes[NPoints] - VBO[2]

\* composition -0.5 builds a profile from series entry 51
C6_Witness ==
    /\ Built
    /\ composition = -500
    /\ well_width = 200
    /\ valence_hh[500] = bands.heavy_holes[52] - VBO[2]

\* ------------------------------------------------------------------ claims on calculate_energy
\* C7: the energy series of calculate_energy(get_parameters((a, b_ac, c)))
\* has 101 entries on the grid x = i/100, equals a at x = 0 and b_ac at
\* x = 1, and entry i is a + (b_ac - a - c)*x + c*x*x.
C7_EnergySeries ==
    pc = "energy" =>
        LET a == parameters[1]
            b_ac == parameters[2]
            c == parameters[3]
            unit == GridStep * GridStep
        IN  /\ Len(energy_list) = NPoints
            /\ Len(x_list) = NPoints
            /\ \A k \in 0 .. (NPoints - 1) : x_list[k + 1] = k
            /\ x_list[NPoints] = GridStep
            /\ energy_list[1] = a * unit
            /\ energy_list[NPoints] = b_ac * unit
            /\ \A k \in 0 .. (NPoints - 1) :
                   energy_list[k + 1] =
                       a * unit + (b_ac - a - c) * k * GridStep + c * k * k

\* a tuple with bowing and distinct endpoints
C7_Witness ==
    /\ pc = "energy"
    /\ parameters[3] # 0
    /\ parameters[1] # parameters[2]
    /\ energy_list[NPoints] # energy_list[1]

====
